---- MODULE Spec2Model ----
(***************************************************************************)
(* A model of codex-sessions: the session loader (internal/sessions        *)
(* loader.go), the session lifecycle (DeleteFiles and directory pruning)   *)
(* and the selection model of the terminal UI (internal/ui ui.go).         *)
(*                                                                         *)
(* Conventions.                                                            *)
(*   - A time.Time is a natural number; 0 is the zero time (time.Time{}),  *)
(*     so IsZero(t) is t = 0, and After/Before are > and <.                *)
(*   - A file-system path is the sequence of its components under "/":     *)
(*     "/r/a/f" is <<"r","a","f">> and "/" is <<>>.                        *)
(*   - A Go string is the sequence of its characters (<<>> is ""); the     *)
(*     "type" of a log entry and the kind of an error, which are only      *)
(*     compared, are TLA+ strings.                                         *)
(*   - Four specifications share the module: SpecFS (DeleteFiles),         *)
(*     SpecParse (parseSessionFile), SpecLoad (Load) and SpecUI (the       *)
(*     key-event state machine).  Each leaves the others' variables idle.  *)
(***************************************************************************)
EXTENDS Integers, Sequences, FiniteSets, TLC

VARIABLES
    \* ---- the file system, and one DeleteFiles call (SpecFS) ----
    fsys,        \* [files, dirs]: the paths that exist
    delPC,       \* "idle" | "start" | "done"
    delSess,     \* the FilePaths of the session handed to DeleteFiles
    delRoot,     \* the sessionsRoot handed to DeleteFiles
    delErr,      \* the combined error returned: the paths whose removal failed
    delPre,      \* the file system before the call (history)
    \* ---- the selection model, ui.model (SpecUI) ----
    entries,     \* m.entries: the rows
    filtered,    \* m.filtered: indices into entries, counted from 0
    selected,    \* m.selected: cursor into filtered, counted from 0
    pageSize,    \* m.pageSize
    query,       \* m.query
    status,      \* m.status
    resumeID,    \* m.resumeID
    running,     \* TRUE until app.Stop() is called
    deletedIDs,  \* the IDs of the sessions deleted so far (history)
    \* ---- one run of parseSessionFile (SpecParse) ----
    parsePC,     \* "idle" | "reading" | "done"
    parseLines,  \* the lines read so far (history)
    parseSt,     \* the locals: session, createdSet, lastTS
    parseErr,    \* the error returned, "" for nil
    \* ---- one run of Load (SpecLoad) ----
    loadPC,      \* "idle" | "stat" | "walk" | "done"
    walkPos,     \* the position in WalkItems the walk visits next
    byID,        \* the map byID, a function from IDs to sessions
    combinedErr, \* the errors joined so far: [path, kind]
    fragments,   \* what each log parsed to: [path, err, session] (history)
    loadIter,    \* the order in which byID was ranged over (history)
    loadOut      \* what Load returns: [sessions, err, fatal]

fsVars == <<fsys, delPC, delSess, delRoot, delErr, delPre>>

uiVars == <<entries, filtered, selected, pageSize, query, status, resumeID,
            running, deletedIDs>>

parseVars == <<parsePC, parseLines, parseSt, parseErr>>

loadVars == <<loadPC, walkPos, byID, combinedErr, fragments, loadIter, loadOut>>

vars == <<fsVars, uiVars, parseVars, loadVars>>

-----------------------------------------------------------------------------
(* Generic helpers.                                                        *)

Range(s) == {s[i] : i \in 1..Len(s)}

\* s[i] of the Go slice s, whose indices count from 0
At(s, i) == s[i + 1]

RECURSIVE SetToSeqs(_)
\* every ordering of a finite set
SetToSeqs(S) ==
    IF S = {} THEN {<<>>}
    ELSE UNION {{<<x>> \o t : t \in SetToSeqs(S \ {x})} : x \in S}

IsPrefix(p, q) == Len(p) <= Len(q) /\ SubSeq(q, 1, Len(p)) = p

\* sessions.Session
Session(id, wd, la, created, updated, paths) ==
    [ID |-> id, WorkingDir |-> wd, LastAction |-> la, CreatedAt |-> created,
     UpdatedAt |-> updated, FilePaths |-> paths]

-----------------------------------------------------------------------------
(* The file system and path/filepath.                                      *)

Root      == <<"r">>          \* the sessions root, "/r"
EmptyRoot == <<"">>           \* the empty string given as sessionsRoot
Dot       == <<".">>          \* filepath.Clean("") = "."
Slash     == <<>>             \* "/"

F1 == <<"r", "a", "b", "f1.jsonl">>
F2 == <<"r", "a", "f2.jsonl">>
F3 == <<"r", "f3.jsonl">>
F4 == <<"r", "..x", "f4.jsonl">>
F5 == <<"o", "f5.jsonl">>

FileUniverse == {F1, F2, F3, F4, F5}

\* filepath.Dir of a clean absolute path
Dir(p) == IF p = Slash THEN Slash ELSE SubSeq(p, 1, Len(p) - 1)

\* filepath.Clean: the paths of the model are clean already; "" becomes "."
Clean(p) == IF p = EmptyRoot THEN Dot ELSE p

IsAbs(p) == p = Slash \/ Head(p) \notin {"", "."}

RECURSIVE Ancestors(_)
Ancestors(p) == IF p = Slash THEN {Slash} ELSE {Dir(p)} \cup Ancestors(Dir(p))

\* the directories a set of files needs, with the root and "/o" always there
DirsFor(files) == UNION {Ancestors(f) : f \in files} \cup {Slash, Root, <<"o">>}

Children(fs, d) == {p \in fs.files \cup fs.dirs : p # Slash /\ Dir(p) = d}

RECURSIVE CommonLen(_, _)
CommonLen(p, q) ==
    IF p = <<>> \/ q = <<>> \/ Head(p) # Head(q) THEN 0
    ELSE 1 + CommonLen(Tail(p), Tail(q))

\* filepath.Rel(base, targ): [err, rel]; a relative base and an absolute
\* target cannot be made relative to each other
Rel(base, targ) ==
    IF IsAbs(base) # IsAbs(targ) THEN [err |-> TRUE, rel |-> <<>>]
    ELSE LET k   == CommonLen(base, targ)
             ups == [i \in 1..(Len(base) - k) |-> ".."]
             r   == ups \o SubSeq(targ, k + 1, Len(targ))
         IN  [err |-> FALSE, rel |-> IF r = <<>> THEN Dot ELSE r]

\* strings.HasPrefix(rel, ".."): the first component begins with two dots
HasDotDotPrefix(rel) == Head(rel) \in {"..", "..x"}

\* os.Remove(p): [fs, err], err "" on success.  denied is the set of paths
\* the operating system refuses to remove (EACCES/EPERM).
OsRemove(fs, p, denied) ==
    IF p \notin fs.files \cup fs.dirs THEN [fs |-> fs, err |-> "ENOENT"]
    ELSE IF p \in denied THEN [fs |-> fs, err |-> "EACCES"]
    ELSE IF p \in fs.files
         THEN [fs |-> [fs EXCEPT !.files = @ \ {p}], err |-> ""]
    ELSE IF Children(fs, p) # {} THEN [fs |-> fs, err |-> "ENOTEMPTY"]
    ELSE [fs |-> [fs EXCEPT !.dirs = @ \ {p}], err |-> ""]

RECURSIVE CleanupLoop_NoBoundaryTest(_, _, _, _)
\* a loop that removes empty ancestors without looking at the boundary
CleanupLoop_NoBoundaryTest(dir, stop, fs, denied) ==
    IF dir = Dot \/ dir = Slash THEN fs
    ELSE LET rm == OsRemove(fs, dir, denied)
         IN  IF rm.err # "" THEN fs
             ELSE IF dir = stop THEN rm.fs
             ELSE CleanupLoop_NoBoundaryTest(Dir(dir), stop, rm.fs, denied)

RECURSIVE CleanupLoop(_, _, _, _)
\* the for loop of cleanupParentDirectories, from dir upwards; stop is cleaned
CleanupLoop(dir, stop, fs, denied) ==
    IF dir = Dot \/ dir = Slash THEN fs
    ELSE LET rel == Rel(stop, dir)
         IN  IF stop # EmptyRoot /\ (rel.err \/ HasDotDotPrefix(rel.rel)) THEN fs
             ELSE LET rm == OsRemove(fs, dir, denied)
                  IN  IF rm.err # "" THEN fs
                      ELSE IF dir = stop THEN rm.fs
                      ELSE CleanupLoop(Dir(dir), stop, rm.fs, denied)

cleanupParentDirectories(start, stop, fs, denied) ==
    CleanupLoop(Clean(start), Clean(stop), fs, denied)

RECURSIVE DeleteLoop_ReturnsAtFirstError(_, _, _, _, _)
\* a loop that returns at the first removal that fails
DeleteLoop_ReturnsAtFirstError(paths, sessionsRoot, fs, denied, combined) ==
    IF paths = <<>> THEN [fs |-> fs, err |-> combined]
    ELSE LET path == Head(paths)
             rm   == OsRemove(fs, path, denied)
         IN  IF rm.err # "" /\ rm.err # "ENOENT"
             THEN [fs |-> fs, err |-> Append(combined, path)]
             ELSE DeleteLoop_ReturnsAtFirstError(
                      Tail(paths), sessionsRoot,
                      cleanupParentDirectories(Dir(path), sessionsRoot,
                                               rm.fs, denied),
                      denied, combined)

RECURSIVE DeleteLoop(_, _, _, _, _)
\* the range loop of DeleteFiles over sess.FilePaths: [fs, err]
DeleteLoop(paths, sessionsRoot, fs, denied, combined) ==
    IF paths = <<>> THEN [fs |-> fs, err |-> combined]
    ELSE LET path == Head(paths)
             rm   == OsRemove(fs, path, denied)
         IN  IF rm.err # "" /\ rm.err # "ENOENT"
             THEN DeleteLoop(Tail(paths), sessionsRoot, fs, denied,
                             Append(combined, path))
             ELSE DeleteLoop(Tail(paths), sessionsRoot,
                             cleanupParentDirectories(Dir(path), sessionsRoot,
                                                      rm.fs, denied),
                             denied, combined)

\* DeleteFiles(sess, sessionsRoot): the file system afterwards and the
\* combined error (<<>> is nil)
DeleteFiles(filePaths, sessionsRoot, fs, denied) ==
    DeleteLoop(filePaths, IF sessionsRoot # EmptyRoot THEN Clean(sessionsRoot)
                          ELSE sessionsRoot,
               fs, denied, <<>>)

\* sort.Strings order of the paths of FileUniverse, as strings:
\* "/o/f5.jsonl" < "/r/..x/f4.jsonl" < "/r/a/b/f1.jsonl" < "/r/a/f2.jsonl"
\* < "/r/f3.jsonl"
PathOrder == <<F5, F4, F1, F2, F3>>

PathIndex(p) == CHOOSE i \in 1..Len(PathOrder) : PathOrder[i] = p

PathLess(p, q) == PathIndex(p) < PathIndex(q)

RECURSIVE SortedPaths(_)
\* the paths of S in ascending order
SortedPaths(S) ==
    IF S = {} THEN <<>>
    ELSE LET m == CHOOSE x \in S : \A y \in S \ {x} : PathLess(x, y)
         IN  <<m>> \o SortedPaths(S \ {m})

\* the directories whose removal the operating system may refuse
DeniableDirs == {<<"r", "a">>}

-----------------------------------------------------------------------------
(* Go strings: sequences of one-character strings.                         *)

\* the characters the model uses, in ascending code-point order
AsciiOrder ==
    <<"\t", " ", "-", ".", "/", "0", "1", "2", "3", "4", "5", "6", "7", "8",
      "9", ":", "S", "T", "Z", "a", "b", "h", "i", "j", "l", "n", "o", "r",
      "s", "t", "w", "x", "z">>

CharCode(c) == CHOOSE i \in 1..Len(AsciiOrder) : AsciiOrder[i] = c

RECURSIVE StrLess(_, _)
\* Go's a < b on strings: lexicographic by byte
StrLess(a, b) ==
    IF b = <<>> THEN FALSE
    ELSE IF a = <<>> THEN TRUE
    ELSE IF Head(a) # Head(b) THEN CharCode(Head(a)) < CharCode(Head(b))
    ELSE StrLess(Tail(a), Tail(b))

\* unicode.ToLower on one character (also the Unicode case fold of it)
LowerChar(c) ==
    CASE c = "S" -> "s"
      [] c = "T" -> "t"
      [] c = "Z" -> "z"
      [] OTHER   -> c

\* strings.ToLower
ToLower(s) == [i \in 1..Len(s) |-> LowerChar(s[i])]

\* unicode.IsControl
IsControl(r) == r = "\t"

\* unicode.IsSpace, as strings.TrimSpace uses it
IsSpace(c) == c \in {" ", "\t"}

RECURSIVE TrimLeft(_)
TrimLeft(s) == IF s # <<>> /\ IsSpace(Head(s)) THEN TrimLeft(Tail(s)) ELSE s

RECURSIVE TrimRight(_)
TrimRight(s) ==
    IF s # <<>> /\ IsSpace(s[Len(s)]) THEN TrimRight(SubSeq(s, 1, Len(s) - 1))
    ELSE s

\* strings.TrimSpace
TrimSpace(s) == TrimRight(TrimLeft(s))

RECURSIVE Join(_, _)
\* strings.Join(parts, sep)
Join(parts, sep) ==
    IF parts = <<>> THEN <<>>
    ELSE IF Len(parts) = 1 THEN parts[1]
    ELSE parts[1] \o sep \o Join(Tail(parts), sep)

Digits == <<"0", "1", "2", "3", "4", "5", "6", "7", "8", "9">>

\* t.Format(time.RFC3339) of a UTC time: the zero time is year 1, and time
\* t in 1..9 is t seconds into 2 February 2000
FormatRFC3339(t) ==
    IF t = 0
    THEN <<"0","0","0","1","-","0","1","-","0","1","T",
           "0","0",":","0","0",":","0","0","Z">>
    ELSE <<"2","0","0","0","-","0","2","-","0","2","T",
           "0","0",":","0","0",":","0", Digits[t + 1], "Z">>

-----------------------------------------------------------------------------
(* github.com/lithammer/fuzzysearch/fuzzy, as applyFilter uses it.          *)

\* the first position from j on at which target holds the rune r, or 0
FirstAt(r, target, j) ==
    LET at == {p \in j..Len(target) : target[p] = r}
    IN  IF at = {} THEN 0 ELSE CHOOSE p \in at : \A o \in at : p <= o

RECURSIVE MatchRunes(_, _, _, _)
\* the Outer loop of fuzzy's match, at rune i of source with target read up
\* to position j - 1: every rune of source occurs in target, in order
MatchRunes(source, target, i, j) ==
    IF i > Len(source) THEN TRUE
    ELSE LET p == FirstAt(source[i], target, j)
         IN  IF p = 0 THEN FALSE ELSE MatchRunes(source, target, i + 1, p + 1)

\* a match that folds the target only, as fuzzy.Match on a folded key would
MatchFold_SourceNotFolded(source, target) ==
    LET t == ToLower(target)
    IN  IF Len(t) - Len(source) < 0 THEN FALSE
        ELSE IF Len(t) = Len(source) /\ source = t THEN TRUE
        ELSE MatchRunes(source, t, 1, 1)

\* fuzzy.MatchFold(source, target)
MatchFold(source, target) ==
    LET s == ToLower(source)
        t == ToLower(target)
    IN  IF Len(t) - Len(s) < 0 THEN FALSE
        ELSE IF Len(t) = Len(s) /\ s = t THEN TRUE
        ELSE MatchRunes(s, t, 1, 1)

Min2(a, b) == IF a <= b THEN a ELSE b

RECURSIVE LevRow(_, _, _, _)
\* one row of the Levenshtein table: acc[i + 1] is the distance of the first
\* i runes of s from the target read so far, prev the row before
LevRow(prev, s, tc, acc) ==
    IF Len(acc) = Len(s) + 1 THEN acc
    ELSE LET i    == Len(acc)
             cost == IF s[i] = tc THEN 0 ELSE 1
         IN  LevRow(prev, s, tc,
                    Append(acc, Min2(Min2(prev[i + 1] + 1, acc[i] + 1),
                                     prev[i] + cost)))

RECURSIVE LevRows(_, _, _, _, _)
\* the rows of the table for the runes lo..hi of t, in order (the range is
\* halved to keep the evaluation shallow)
LevRows(prev, s, t, lo, hi) ==
    IF lo > hi THEN prev
    ELSE IF lo = hi THEN LevRow(prev, s, t[lo], <<prev[1] + 1>>)
    ELSE LET mid  == (lo + hi) \div 2
             left == LevRows(prev, s, t, lo, mid)
         IN  IF Len(left) = Len(s) + 1 THEN LevRows(left, s, t, mid + 1, hi)
             ELSE left

\* fuzzy.LevenshteinDistance(s, t)
LevenshteinDistance(s, t) ==
    LevRows([i \in 1..(Len(s) + 1) |-> i - 1], s, t, 1, Len(t))[Len(s) + 1]

\* what rankFind decides for one target: the distance, or -1 for no match
FoldRank(source, target) ==
    IF MatchFold(source, target) THEN LevenshteinDistance(source, target) ELSE -1

-----------------------------------------------------------------------------
(* The loader's describers (loader.go).  A log line is a record: json is   *)
(* "blank" for an empty line, "invalid" for a line json.Unmarshal rejects  *)
(* and "object" for an entry; a payload is the bag of the JSON fields the  *)
(* describers read, with json "invalid" when it does not decode.           *)

snippetLimit == 160

RECURSIVE Fields(_)
\* strings.Fields
Fields(s) ==
    LET t == TrimLeft(s)
    IN  IF t = <<>> THEN <<>>
        ELSE LET gaps == {k \in 1..Len(t) : IsSpace(t[k])}
                 n    == IF gaps = {} THEN Len(t)
                         ELSE (CHOOSE k \in gaps : \A o \in gaps : k <= o) - 1
             IN  <<SubSeq(t, 1, n)>> \o Fields(SubSeq(t, n + 1, Len(t)))

\* the end of compactSnippet: a text longer than snippetLimit is cut
truncate(text) ==
    IF Len(text) <= snippetLimit THEN text
    ELSE IF snippetLimit <= 3 THEN SubSeq(text, 1, snippetLimit)
    ELSE SubSeq(text, 1, snippetLimit - 3) \o <<".", ".", ".">>

\* compactSnippet after strings.TrimSpace
collapse(text) ==
    IF text = <<>> THEN <<>> ELSE truncate(Join(Fields(text), <<" ">>))

compactSnippet(text) == collapse(TrimSpace(text))

RECURSIVE firstNonEmptyText(_)
firstNonEmptyText(items) ==
    IF items = <<>> THEN <<>>
    ELSE IF TrimSpace(Head(items).Text) # <<>> THEN Head(items).Text
    ELSE firstNonEmptyText(Tail(items))

\* ---- the texts the describers print ----
StrSessionStarted ==
    <<"s", "e", "s", "s", "i", "o", "n", " ", "s", "t", "a", "r", "t", "e",
      "d">>

StrTokenUsageUpdated ==
    <<"t", "o", "k", "e", "n", " ", "u", "s", "a", "g", "e", " ", "u", "p",
      "d", "a", "t", "e", "d">>

StrToolProgress ==
    <<"t", "o", "o", "l", " ", "p", "r", "o", "g", "r", "e", "s", "s", ":",
      " ">>

StrCommandOutput ==
    <<"c", "o", "m", "m", "a", "n", "d", " ", "o", "u", "t", "p", "u", "t",
      ":", " ">>

StrReasoning ==
    <<"r", "e", "a", "s", "o", "n", "i", "n", "g", ":", " ">>

StrCall ==
    <<"c", "a", "l", "l", " ">>

StrError ==
    <<" ", "e", "r", "r", "o", "r", ":", " ">>

StrCompleted ==
    <<" ", "c", "o", "m", "p", "l", "e", "t", "e", "d">>

StrOutput ==
    <<" ", "o", "u", "t", "p", "u", "t">>

StrExit ==
    <<" ", "e", "x", "i", "t", " ">>

StrColon ==
    <<":", " ">>


\* ---- the values of the "type" and "name" fields the describers test ----
TypeMessage ==
    <<"m", "e", "s", "s", "a", "g", "e">>

TypeReasoning ==
    <<"r", "e", "a", "s", "o", "n", "i", "n", "g">>

TypeFunctionCall ==
    <<"f", "u", "n", "c", "t", "i", "o", "n", "_", "c", "a", "l", "l">>

TypeFunctionCallOutput ==
    <<"f", "u", "n", "c", "t", "i", "o", "n", "_", "c", "a", "l", "l", "_",
      "o", "u", "t", "p", "u", "t">>

TypeUserMessage ==
    <<"u", "s", "e", "r", "_", "m", "e", "s", "s", "a", "g", "e">>

TypeAssistantMessage ==
    <<"a", "s", "s", "i", "s", "t", "a", "n", "t", "_", "m", "e", "s", "s",
      "a", "g", "e">>

TypeSystemMessage ==
    <<"s", "y", "s", "t", "e", "m", "_", "m", "e", "s", "s", "a", "g", "e">>

TypeToolProgress ==
    <<"t", "o", "o", "l", "_", "p", "r", "o", "g", "r", "e", "s", "s">>

TypeTokenCount ==
    <<"t", "o", "k", "e", "n", "_", "c", "o", "u", "n", "t">>

TypeCommandOutput ==
    <<"c", "o", "m", "m", "a", "n", "d", "_", "o", "u", "t", "p", "u", "t">>

NameShell ==
    <<"s", "h", "e", "l", "l">>


\* argsJSON is a JSON text: raw is "empty" for "", "invalid" for a text that
\* does not decode, "object" otherwise
describeFunctionArguments(name, argsJSON) ==
    IF argsJSON.raw = "empty" THEN <<>>
    ELSE IF name = NameShell
    THEN IF argsJSON.raw = "invalid" THEN <<>>
         ELSE IF Len(argsJSON.Command) = 0 THEN <<>>
         ELSE compactSnippet(Join(argsJSON.Command, <<" ">>))
    ELSE <<>>

describeFunctionOutput(payload) ==
    IF payload.Output.raw = "empty"
    THEN IF payload.Error.set /\ payload.Error.Message # <<>>
         THEN StrCall \o payload.Name \o StrError
              \o compactSnippet(payload.Error.Message)
         ELSE StrCall \o payload.Name \o StrCompleted
    ELSE IF payload.Output.raw = "invalid"
    THEN StrCall \o payload.Name \o StrOutput
    ELSE LET out == payload.Output
         IN  IF out.Error # <<>>
             THEN StrCall \o payload.Name \o StrError \o compactSnippet(out.Error)
             ELSE IF out.ExitCode.set
             THEN LET snippet == compactSnippet(out.Output)
                      code    == <<Digits[out.ExitCode.code + 1]>>
                  IN  IF snippet # <<>>
                      THEN StrCall \o payload.Name \o StrExit \o code
                           \o StrColon \o snippet
                      ELSE StrCall \o payload.Name \o StrExit \o code
             ELSE IF out.Output = <<>>
             THEN StrCall \o payload.Name \o StrCompleted
             ELSE StrCall \o payload.Name \o StrColon \o compactSnippet(out.Output)

describeResponseItem(raw) ==
    IF raw.json = "invalid" THEN <<>>
    ELSE IF raw.Type = TypeMessage
    THEN LET t1   == firstNonEmptyText(raw.Content)
             t2   == IF t1 = <<>> THEN firstNonEmptyText(raw.Summary) ELSE t1
             text == IF t2 = <<>> /\ raw.Title # <<>> THEN raw.Title ELSE t2
             prefix == TrimSpace(raw.Role)
         IN  IF text = <<>> THEN <<>>
             ELSE IF prefix # <<>>
             THEN prefix \o StrColon \o compactSnippet(text)
             ELSE compactSnippet(text)
    ELSE IF raw.Type = TypeReasoning
    THEN LET t1   == firstNonEmptyText(raw.Summary)
             text == IF t1 = <<>> THEN firstNonEmptyText(raw.Content) ELSE t1
         IN  IF text = <<>> THEN <<>>
             ELSE StrReasoning \o compactSnippet(text)
    ELSE IF raw.Type = TypeFunctionCall
    THEN LET desc == StrCall \o raw.Name
             args == describeFunctionArguments(raw.Name, raw.Arguments)
         IN  IF args # <<>> THEN desc \o <<" ">> \o args ELSE desc
    ELSE IF raw.Type = TypeFunctionCallOutput
    THEN describeFunctionOutput(raw)
    ELSE IF raw.Title # <<>> THEN compactSnippet(raw.Title)
    ELSE <<>>

describeEventMessage(raw) ==
    IF raw.json = "invalid" THEN <<>>
    ELSE LET fallThrough ==
                 IF raw.Message # <<>>
                 THEN raw.Type \o StrColon \o compactSnippet(raw.Message)
                 ELSE raw.Type
         IN  IF raw.Type \in {TypeUserMessage, TypeAssistantMessage,
                              TypeSystemMessage}
             THEN LET text == IF raw.Message = <<>> THEN raw.Text
                              ELSE raw.Message
                  IN  IF text = <<>> THEN <<>>
                      ELSE raw.Type \o StrColon \o compactSnippet(text)
             ELSE IF raw.Type = TypeToolProgress /\ raw.Message # <<>>
             THEN StrToolProgress \o compactSnippet(raw.Message)
             ELSE IF raw.Type = TypeTokenCount
             THEN StrTokenUsageUpdated
             ELSE IF raw.Type = TypeCommandOutput /\ raw.Message # <<>>
             THEN StrCommandOutput \o compactSnippet(raw.Message)
             ELSE fallThrough

describeEntry(entry) ==
    IF entry.Type = "response_item" THEN describeResponseItem(entry.Payload)
    ELSE IF entry.Type = "event_msg" THEN describeEventMessage(entry.Payload)
    ELSE <<>>

\* the times time.Parse can read back from what FormatRFC3339 prints
ClockTimes == 0..9

\* parseTimestamp: time.RFC3339Nano, then time.RFC3339, read the same
\* timestamps without a fraction
parseTimestamp(value) ==
    IF value = <<>> THEN [err |-> TRUE, t |-> 0]
    ELSE LET read == {t \in ClockTimes : FormatRFC3339(t) = value}
         IN  IF read # {} THEN [err |-> FALSE, t |-> CHOOSE t \in read : TRUE]
             ELSE [err |-> TRUE, t |-> 0]

-----------------------------------------------------------------------------
(* parseSessionFile (loader.go), and the log lines it is run on.           *)

\* a JSON text held in a string field: the arguments of a call, its output
NoJSON ==
    [raw |-> "empty", Command |-> <<>>, Output |-> <<>>,
     ExitCode |-> [set |-> FALSE, code |-> 0], Error |-> <<>>]

\* a payload that is a JSON object with none of the fields
EmptyPayload ==
    [json |-> "object", ID |-> <<>>, Timestamp |-> <<>>, CWD |-> <<>>,
     Type |-> <<>>, Role |-> <<>>, Content |-> <<>>, Summary |-> <<>>,
     Title |-> <<>>, Name |-> <<>>, Arguments |-> NoJSON, Output |-> NoJSON,
     Error |-> [set |-> FALSE, Message |-> <<>>], Message |-> <<>>,
     Text |-> <<>>]

\* a payload that does not decode into the struct asked for
InvalidPayload == [EmptyPayload EXCEPT !.json = "invalid"]

BlankLine ==
    [json |-> "blank", Timestamp |-> <<>>, Type |-> "", Payload |-> EmptyPayload]

MalformedLine ==
    [json |-> "invalid", Timestamp |-> <<>>, Type |-> "",
     Payload |-> EmptyPayload]

Entry(timestamp, type, payload) ==
    [json |-> "object", Timestamp |-> timestamp, Type |-> type,
     Payload |-> payload]

\* a timestamp no layout reads
InvalidStamp == <<"x">>

MetaPayload(id, cwd, timestamp) ==
    [EmptyPayload EXCEPT !.ID = id, !.CWD = cwd, !.Timestamp = timestamp]

TokenCount == [EmptyPayload EXCEPT !.Type = TypeTokenCount]

UserMessage(text) ==
    [EmptyPayload EXCEPT !.Type = TypeMessage, !.Role = <<"u", "s", "e", "r">>,
                         !.Content = <<[Text |-> text]>>]

ShellCall ==
    [EmptyPayload EXCEPT !.Type = TypeFunctionCall, !.Name = NameShell,
                         !.Arguments = [NoJSON EXCEPT !.raw = "object",
                                               !.Command = <<<<"l", "s">>>>]]

EventUser(text) ==
    [EmptyPayload EXCEPT !.Type = TypeUserMessage, !.Message = text]

\* the lines a log may hold
ParseLines ==
    {BlankLine, MalformedLine}
    \cup {Entry(FormatRFC3339(s), "session_meta",
                MetaPayload(<<"A">>, <<"/", "w">>, p)) :
             s \in {1, 3}, p \in {FormatRFC3339(2), InvalidStamp}}
    \cup {Entry(FormatRFC3339(1), "session_meta", MetaPayload(<<>>, <<>>, <<>>)),
          Entry(FormatRFC3339(1), "session_meta", InvalidPayload)}
    \cup {Entry(s, "event_msg", TokenCount) :
             s \in {FormatRFC3339(1), FormatRFC3339(2), FormatRFC3339(3),
                    InvalidStamp}}
    \cup {Entry(FormatRFC3339(3), "response_item", UserMessage(<<"h", "i">>)),
          Entry(FormatRFC3339(3), "response_item", UserMessage(<<" ">>)),
          Entry(FormatRFC3339(2), "response_item", ShellCall),
          Entry(FormatRFC3339(2), "event_msg", EventUser(<<"a", " ", " ", "b">>))}
    \cup {Entry(FormatRFC3339(s), "turn_context", EmptyPayload) : s \in {1, 3}}

\* the most lines read from one log
MaxRecords == 3

\* parseSessionFile's locals: session, createdSet, lastTS
StartParse(path) ==
    [session |-> Session(<<>>, <<>>, <<>>, 0, 0, <<path>>),
     createdSet |-> FALSE, lastTS |-> 0]

\* the case "session_meta" of the switch
readMeta(st, payload) ==
    LET pTs == parseTimestamp(payload.Timestamp)
    IN  [st EXCEPT !.session.ID = payload.ID,
                   !.session.WorkingDir = payload.CWD,
                   !.session.CreatedAt = IF pTs.err THEN @ ELSE pTs.t,
                   !.createdSet = IF pTs.err THEN @ ELSE TRUE]

\* a record that moves lastTS only when it sets LastAction
described_OnlyWhenSet(st, ts, entry, desc) ==
    IF desc # <<>>
    THEN [st EXCEPT !.lastTS = ts, !.session.LastAction = desc]
    ELSE IF entry.Type = "session_meta" /\ st.session.LastAction = <<>>
    THEN [st EXCEPT !.lastTS = ts, !.session.LastAction = StrSessionStarted]
    ELSE st

\* the body of "if ts.After(lastTS) || lastTS.IsZero()", desc being
\* describeEntry(entry)
described(st, ts, entry, desc) ==
    [st EXCEPT
       !.lastTS = ts,
       !.session.LastAction =
           IF desc # <<>> THEN desc
           ELSE IF entry.Type = "session_meta" /\ @ = <<>>
           THEN StrSessionStarted
           ELSE @]

\* if ts.After(lastTS) || lastTS.IsZero() { ... }
advance(st, ts, entry) ==
    IF ts > st.lastTS \/ st.lastTS = 0
    THEN described(st, ts, entry, describeEntry(entry))
    ELSE st

\* the body of the loop for one non-empty line: [st, err]
parseLine(st, line) ==
    IF line.json = "invalid" THEN [st |-> st, err |-> "decode log entry"]
    ELSE LET tsr == parseTimestamp(line.Timestamp)
             ts  == IF tsr.err THEN 0 ELSE tsr.t
         IN  IF line.Type = "session_meta" /\ line.Payload.json = "invalid"
             THEN [st |-> st, err |-> "decode session_meta payload"]
             ELSE LET s1 == IF line.Type = "session_meta"
                            THEN readMeta(st, line.Payload) ELSE st
                  IN  [st |-> advance(s1, ts, line), err |-> ""]

\* what follows the loop: [st, err]
parseTail(st) ==
    IF st.session.ID = <<>> THEN [st |-> st, err |-> "missing session id"]
    ELSE LET s1 == [st EXCEPT !.session.UpdatedAt = st.lastTS]
         IN  [st |-> IF ~s1.createdSet \/ s1.session.CreatedAt = 0
                     THEN [s1 EXCEPT !.session.CreatedAt = s1.session.UpdatedAt]
                     ELSE s1,
              err |-> ""]

\* the end of the last turn of the loop: r is what the turn left
afterLastLine(r) == IF r.err # "" THEN r ELSE parseTail(r.st)

\* the turn of the loop that reads io.EOF with line (BlankLine for nothing),
\* and the tail
lastTurn(st, line) ==
    IF line.json = "blank" THEN parseTail(st)
    ELSE afterLastLine(parseLine(st, line))

RECURSIVE parseLoop(_, _, _)

\* the loop after a turn that left r
afterLine(r, lines, i) ==
    IF r.err # "" THEN r ELSE parseLoop(r.st, lines, i + 1)

\* the loop from line i on, then the tail
parseLoop(st, lines, i) ==
    IF i > Len(lines) THEN parseTail(st)
    ELSE IF lines[i].json = "blank" THEN parseLoop(st, lines, i + 1)
    ELSE afterLine(parseLine(st, lines[i]), lines, i)

\* what parseSessionFile returns when the loop and the tail left r
returned(r) == [session |-> r.st.session, err |-> r.err]

\* parseSessionFile(path) on a file [openErr, lines]: [session, err]
parseSessionFile(path, file) ==
    IF file.openErr THEN [session |-> StartParse(path).session, err |-> "open"]
    ELSE returned(parseLoop(StartParse(path), file.lines, 1))

-----------------------------------------------------------------------------
(* Load (loader.go): the walk over the sessions directory, the merge of    *)
(* the fragments of one session, and the final sort.                       *)

\* the sessions directory Load is given
LoadRoot == <<"/", "r">>

\* every entry of the tree under LoadRoot, in the order filepath.WalkDir
\* visits it (each directory's names in lexical order); nth numbers the
\* files in that order
TreeItems ==
    <<[path |-> <<"/", "r">>, kind |-> "dir", nth |-> 0],
      [path |-> <<"/", "r", "/", "a">>, kind |-> "dir", nth |-> 0],
      [path |-> <<"/", "r", "/", "a", "/", "1", ".", "j", "s", "o", "n", "l">>, kind |-> "file", nth |-> 1],
      [path |-> <<"/", "r", "/", "a", "/", "n", ".", "t", "x", "t">>, kind |-> "file", nth |-> 0],
      [path |-> <<"/", "r", "/", "a", "-", "b">>, kind |-> "dir", nth |-> 0],
      [path |-> <<"/", "r", "/", "a", "-", "b", "/", "2", ".", "j", "s", "o", "n", "l">>, kind |-> "file", nth |-> 2],
      [path |-> <<"/", "r", "/", "z", ".", "j", "s", "o", "n", "l">>, kind |-> "file", nth |-> 3],
      [path |-> <<"/", "r", "/", "z", "z", ".", "j", "s", "o", "n", "l">>, kind |-> "file", nth |-> 4]>>

\* the most log files in the tree
MaxFiles == 3

IsWalked(item) == item.nth <= MaxFiles

WalkItems == SelectSeq(TreeItems, IsWalked)

ExtJsonl ==
    <<".", "j", "s", "o", "n", "l">>


\* filepath.Ext: from the last dot of the last element on
Ext(path) ==
    LET dots == {k \in 1..Len(path) :
                    path[k] = "." /\ \A j \in k..Len(path) : path[j] # "/"}
    IN  IF dots = {} THEN <<>>
        ELSE SubSeq(path, CHOOSE k \in dots : \A o \in dots : o <= k, Len(path))

\* the first position after pos that is not below the directory at pos
SkipDir(pos) ==
    LET below == WalkItems[pos].path \o <<"/">>
        rest  == {k \in (pos + 1)..Len(WalkItems) :
                     ~IsPrefix(below, WalkItems[k].path)}
    IN  IF rest = {} THEN Len(WalkItems) + 1
        ELSE CHOOSE k \in rest : \A o \in rest : k <= o

Log(lines) == [openErr |-> FALSE, lines |-> lines]

MetaLine(id, cwd, created, timestamp) ==
    Entry(timestamp, "session_meta", MetaPayload(id, cwd, created))

\* what a log file of the tree may hold
LoadFiles ==
    {Log(<<MetaLine(<<"A">>, <<"/", "w">>, FormatRFC3339(1), FormatRFC3339(1))>>),
     Log(<<MetaLine(<<"A">>, <<>>, FormatRFC3339(2), FormatRFC3339(2)),
           Entry(FormatRFC3339(3), "event_msg", TokenCount)>>),
     Log(<<MetaLine(<<"A">>, <<"/", "v">>, InvalidStamp, InvalidStamp)>>),
     Log(<<MetaLine(<<"A">>, <<"/", "v">>, FormatRFC3339(2), FormatRFC3339(2))>>),
     Log(<<MetaLine(<<"A">>, <<>>, FormatRFC3339(3), FormatRFC3339(3))>>),
     Log(<<MetaLine(<<"B">>, <<"/", "w">>, FormatRFC3339(1), FormatRFC3339(2))>>),
     Log(<<Entry(FormatRFC3339(1), "response_item", UserMessage(<<"h", "i">>)),
           MetaLine(<<"B">>, <<>>, FormatRFC3339(3), FormatRFC3339(3))>>),
     Log(<<MetaLine(<<"C">>, <<>>, FormatRFC3339(2), FormatRFC3339(2))>>),
     Log(<<Entry(FormatRFC3339(2), "event_msg", TokenCount)>>),
     Log(<<MalformedLine>>),
     Log(<<>>),
     [openErr |-> TRUE, lines |-> <<>>]}

\* Session.Snapshot: the session with a copy of its FilePaths
Snapshot(s) ==
    [s EXCEPT !.FilePaths = [i \in 1..Len(s.FilePaths) |-> s.FilePaths[i]]]

\* contains(list, value)
contains(list, value) == \E i \in 1..Len(list) : list[i] = value

RECURSIVE AppendMissing(_, _)
\* the loop that appends the file paths existing does not hold yet
AppendMissing(list, more) ==
    IF more = <<>> THEN list
    ELSE AppendMissing(IF contains(list, Head(more)) THEN list
                       ELSE Append(list, Head(more)),
                       Tail(more))

\* a merge in which the fragment discovered last always wins
mergeFragment_LastDiscoveredWins(existing, session) ==
    [existing EXCEPT
       !.CreatedAt = IF session.CreatedAt < @ \/ @ = 0 THEN session.CreatedAt
                     ELSE @,
       !.UpdatedAt = session.UpdatedAt,
       !.LastAction = session.LastAction,
       !.WorkingDir = IF session.WorkingDir # <<>> THEN session.WorkingDir
                      ELSE @,
       !.FilePaths = AppendMissing(@, session.FilePaths)]

\* "Merge data favouring the latest metadata": what existing becomes
mergeFragment(existing, session) ==
    LET newer == session.UpdatedAt > existing.UpdatedAt
    IN  [existing EXCEPT
           !.CreatedAt = IF session.CreatedAt < @ \/ @ = 0
                         THEN session.CreatedAt ELSE @,
           !.UpdatedAt = IF newer THEN session.UpdatedAt ELSE @,
           !.LastAction = IF newer THEN session.LastAction ELSE @,
           !.WorkingDir = IF newer
                          THEN IF session.WorkingDir # <<>>
                               THEN session.WorkingDir ELSE @
                          ELSE IF @ = <<>> /\ session.WorkingDir # <<>>
                          THEN session.WorkingDir
                          ELSE @,
           !.FilePaths = AppendMissing(@, session.FilePaths)]

\* an errors.Join that keeps only the last error
errorsJoin_KeepsLast(combined, e) == <<e>>

\* errors.Join(combinedErr, e): the errors joined so far, in order
errorsJoin(combined, e) == Append(combined, e)

\* byID after the walk function has parsed one log into session
storeFragment(table, session) ==
    IF session.ID \notin DOMAIN table
    THEN [id \in DOMAIN table \cup {session.ID} |->
             IF id = session.ID THEN Snapshot(session) ELSE table[id]]
    ELSE [table EXCEPT ![session.ID] = mergeFragment(@, session)]

\* sort.Strings left unsorted
SortStrings_Unsorted(list) == list

RECURSIVE InsertString(_, _)
\* the inner loop of the insertion sort: x moves left while it is less
InsertString(sorted, x) ==
    IF sorted # <<>> /\ StrLess(x, sorted[Len(sorted)])
    THEN Append(InsertString(SubSeq(sorted, 1, Len(sorted) - 1), x),
                sorted[Len(sorted)])
    ELSE Append(sorted, x)

RECURSIVE SortStringsFrom(_, _)
SortStringsFrom(sorted, rest) ==
    IF rest = <<>> THEN sorted
    ELSE SortStringsFrom(InsertString(sorted, Head(rest)), Tail(rest))

\* sort.Strings on a slice of at most 12 strings (an insertion sort)
SortStrings(list) == SortStringsFrom(<<>>, list)

\* a less function that orders by UpdatedAt ascending
UpdatedAfter_Before(a, b) == a.UpdatedAt < b.UpdatedAt

\* the less function of the final sort.Slice
UpdatedAfter(a, b) == a.UpdatedAt > b.UpdatedAt

RECURSIVE InsertSession(_, _)
InsertSession(sorted, x) ==
    IF sorted # <<>> /\ UpdatedAfter(x, sorted[Len(sorted)])
    THEN Append(InsertSession(SubSeq(sorted, 1, Len(sorted) - 1), x),
                sorted[Len(sorted)])
    ELSE Append(sorted, x)

RECURSIVE SortSessionsFrom(_, _)
SortSessionsFrom(sorted, rest) ==
    IF rest = <<>> THEN sorted
    ELSE SortSessionsFrom(InsertSession(sorted, Head(rest)), Tail(rest))

\* sort.Slice on at most 12 sessions (an insertion sort, not stable in
\* general)
SortSessions(list) == SortSessionsFrom(<<>>, list)

\* the sessions collected from byID in the order the map is ranged over
CollectSessions(table, order) ==
    [i \in 1..Len(order) |->
        [table[order[i]] EXCEPT !.FilePaths = SortStrings(@)]]

\* the log SpecParse reads
ParsePath == <<"/", "r", "/", "a", "/", "1", ".", "j", "s", "o", "n", "l">>

ParseIdle ==
    /\ parsePC = "idle"
    /\ parseLines = <<>>
    /\ parseSt = StartParse(ParsePath)
    /\ parseErr = ""

\* Load has returned nothing yet
NoReturn == [sessions |-> <<>>, err |-> <<>>, fatal |-> FALSE]

LoadIdle ==
    /\ loadPC = "idle"
    /\ walkPos = 1
    /\ byID = <<>>
    /\ combinedErr = <<>>
    /\ fragments = <<>>
    /\ loadIter = <<>>
    /\ loadOut = NoReturn

-----------------------------------------------------------------------------
(* The selection model: ui.model and its handlers.                         *)

defaultPageLen == 10

\* newModel: one row per session, with its lower-case composite search key
SearchKey(sess) ==
    ToLower(Join(<<sess.ID, sess.WorkingDir, sess.LastAction,
                   FormatRFC3339(sess.CreatedAt),
                   FormatRFC3339(sess.UpdatedAt)>>, <<" ">>))

RECURSIVE newModel(_)
newModel(items) ==
    IF items = <<>> THEN <<>>
    ELSE <<[session |-> Head(items), searchKey |-> SearchKey(Head(items))]>>
         \o newModel(Tail(items))

\* ---- the sessions the UI is started with, and their files ----

\* what Load handed over: unique IDs, UpdatedAt descending
UIItems ==
    <<Session(<<"S", "1">>, <<"/", "w">>, <<"h", "i">>, 1, 3, <<F1, F2>>),
      Session(<<"S", "3">>, <<>>, <<>>, 1, 2, <<F4>>),
      Session(<<"S", "2">>, <<>>, <<>>, 2, 2, <<F3>>)>>

UIFiles == {F1, F2, F3, F4}

\* the runes a key event may carry ("\t" stands for the control runes)
Runes == {"S", "1", "w", " ", "\t"}

\* the heights the table may be drawn with
Heights == {0, 2}

\* the longest query typed
MaxQueryLen == 2

\* the queries that can be typed
RECURSIVE QueriesUpTo(_)
QueriesUpTo(n) ==
    IF n = 0 THEN {<<>>}
    ELSE QueriesUpTo(n - 1) \cup
         {Append(q, r) : q \in {x \in QueriesUpTo(n - 1) : Len(x) = n - 1},
                         r \in {c \in Runes : ~IsControl(c)}}

UIKeys == {SearchKey(UIItems[i]) : i \in 1..Len(UIItems)}

\* FoldRank of every query and search key of the model, computed once
FoldRankTable == [q \in QueriesUpTo(MaxQueryLen), k \in UIKeys |-> FoldRank(q, k)]

RECURSIVE RankLoop(_, _, _)
\* the loop of fuzzy's rankFind from target i on (OriginalIndex counts from 0)
RankLoop(source, targets, i) ==
    IF i > Len(targets) THEN <<>>
    ELSE LET distance == FoldRankTable[source, targets[i]]
         IN  IF distance >= 0
             THEN <<[Distance |-> distance, OriginalIndex |-> i - 1]>>
                  \o RankLoop(source, targets, i + 1)
             ELSE RankLoop(source, targets, i + 1)

\* fuzzy.RankFindFold(source, targets): the ranks of the targets source
\* matches, in the order of targets
RankFindFold(source, targets) == RankLoop(source, targets, 1)

\* a less function without the tie-break on the ID
RankLess_NoIDTieBreak(a, b, rows) ==
    IF a.Distance = b.Distance
    THEN At(rows, a.OriginalIndex).session.UpdatedAt
             > At(rows, b.OriginalIndex).session.UpdatedAt
    ELSE a.Distance < b.Distance

\* the less function applyFilter gives sort.Slice, on two ranks
RankLess(a, b, rows) ==
    IF a.Distance = b.Distance
    THEN LET sessA == At(rows, a.OriginalIndex).session
             sessB == At(rows, b.OriginalIndex).session
         IN  IF sessA.UpdatedAt = sessB.UpdatedAt
             THEN StrLess(sessA.ID, sessB.ID)
             ELSE sessA.UpdatedAt > sessB.UpdatedAt
    ELSE a.Distance < b.Distance

RECURSIVE InsertRank(_, _, _)
\* insertion sort's inner loop: x moves left past every element it is less
\* than (sorted is in order already)
InsertRank(sorted, x, rows) ==
    IF sorted # <<>> /\ RankLess(x, sorted[Len(sorted)], rows)
    THEN Append(InsertRank(SubSeq(sorted, 1, Len(sorted) - 1), x, rows),
                sorted[Len(sorted)])
    ELSE Append(sorted, x)

RECURSIVE SortRanks(_, _, _)
\* sort.Slice(results, less): for the short slices of the model Go sorts by
\* insertion
SortRanks(results, acc, rows) ==
    IF results = <<>> THEN acc
    ELSE SortRanks(Tail(results), InsertRank(acc, Head(results), rows), rows)

\* a ranking that forgets to trim the query
RankedIndices_Untrimmed(q, rows) ==
    IF q = <<>>
    THEN [i \in 1..Len(rows) |-> i - 1]
    ELSE LET keys    == [i \in 1..Len(rows) |-> rows[i].searchKey]
             results == SortRanks(RankFindFold(q, keys), <<>>, rows)
         IN  [i \in 1..Len(results) |-> results[i].OriginalIndex]

\* the filtered view applyFilter computes for a query over rows
RankedIndices(q, rows) ==
    LET trimmed == TrimSpace(q)
    IN  IF trimmed = <<>>
        THEN [i \in 1..Len(rows) |-> i - 1]
        ELSE LET keys    == [i \in 1..Len(rows) |-> rows[i].searchKey]
                 results == SortRanks(RankFindFold(trimmed, keys), <<>>, rows)
             IN  [i \in 1..Len(results) |-> results[i].OriginalIndex]

\* the cursor applyFilter leaves, given the new filtered view
ClampSelected(sel, flt) ==
    IF Len(flt) = 0 THEN 0
    ELSE LET s1 == IF sel >= Len(flt) THEN Len(flt) - 1 ELSE sel
         IN  IF s1 < 0 THEN 0 ELSE s1

\* applyFilter: [filtered, selected]
applyFilter(rows, q, sel) ==
    IF Len(rows) = 0 THEN [filtered |-> <<>>, selected |-> 0]
    ELSE LET flt == RankedIndices(q, rows)
         IN  [filtered |-> flt, selected |-> ClampSelected(sel, flt)]

\* a selection-changed function that forgets the upper clamp
selectionChanged_NoUpperClamp(row, flt) ==
    IF row <= 0 \/ Len(flt) = 0 THEN 0 ELSE row - 1

\* the function given to table.SetSelectionChangedFunc: the new m.selected
selectionChanged(row, flt) ==
    IF row <= 0 \/ Len(flt) = 0 THEN 0
    ELSE LET idx == row - 1
         IN  IF idx >= Len(flt) THEN Len(flt) - 1 ELSE idx

\* refreshTable: the m.selected it leaves (table.Select calls the
\* selection-changed function)
refreshTable(flt, sel) ==
    IF Len(flt) > 0
    THEN LET s1 == IF sel >= Len(flt) THEN Len(flt) - 1 ELSE sel
         IN  selectionChanged(s1 + 1, flt)
    ELSE selectionChanged(0, flt)

\* a move that subtracts the delta where it should add it
moveSelectionBy_WrongDirection(delta, flt, sel) ==
    IF Len(flt) = 0 THEN sel
    ELSE LET n0   == sel - delta
             next == IF n0 < 0 THEN 0
                     ELSE IF n0 >= Len(flt) THEN Len(flt) - 1 ELSE n0
         IN  selectionChanged(next + 1, flt)

\* moveSelectionBy(delta): the m.selected it leaves
moveSelectionBy(delta, flt, sel) ==
    IF Len(flt) = 0 THEN sel
    ELSE LET n0   == sel + delta
             next == IF n0 < 0 THEN 0
                     ELSE IF n0 >= Len(flt) THEN Len(flt) - 1 ELSE n0
         IN  selectionChanged(next + 1, flt)

\* a function that drops the first rune where it should drop the last
dropLastRune_DropsFirst(value) ==
    IF value = <<>> THEN value
    ELSE IF Len(value) <= 1 THEN <<>>
    ELSE SubSeq(value, 2, Len(value))

\* dropLastRune
dropLastRune(value) ==
    IF value = <<>> THEN value
    ELSE IF Len(value) <= 1 THEN <<>>
    ELSE SubSeq(value, 1, Len(value) - 1)

\* a removal that is off by one and drops nothing
RemoveRow_DropsNothing(rows, idx) ==
    SubSeq(rows, 1, idx + 1) \o SubSeq(rows, idx + 2, Len(rows))

\* a removal that is off by one and drops the row after the deleted one
RemoveRow_DropsNextRow(rows, idx) ==
    SubSeq(rows, 1, idx + 1) \o SubSeq(rows, idx + 3, Len(rows))

\* append(m.entries[:idx], m.entries[idx+1:]...)
RemoveRow(rows, idx) ==
    SubSeq(rows, 1, idx) \o SubSeq(rows, idx + 2, Len(rows))

\* the text model.setStatus stores
NothingToDelete == <<"Nothing to delete">>
DeleteFailed(err) == <<"Delete failed: ", err>>
SessionDeleted(id) == <<"Session ", id, " deleted">>

\* a deleteSelected that drops the row whatever DeleteFiles returned
deleteSelected_IgnoresError(rows, flt, sel, q, fs, denied) ==
    IF Len(flt) = 0
    THEN [entries |-> rows, filtered |-> flt, selected |-> sel,
          status |-> NothingToDelete, fs |-> fs, deleted |-> {}]
    ELSE LET idx  == At(flt, sel)
             sess == At(rows, idx).session
             r    == DeleteFiles(sess.FilePaths, Root, fs, denied)
             kept == RemoveRow(rows, idx)
             af   == applyFilter(kept, q, sel)
         IN  [entries |-> kept, filtered |-> af.filtered,
              selected |-> af.selected,
              status |-> IF r.err # <<>> THEN DeleteFailed(r.err)
                         ELSE SessionDeleted(sess.ID),
              fs |-> r.fs,
              deleted |-> IF r.err # <<>> THEN {} ELSE {sess.ID}]

\* deleteSelected: what it leaves of the model and of the file system, and
\* the ID it deleted; denied is what the operating system refuses to remove
deleteSelected(rows, flt, sel, q, fs, denied) ==
    IF Len(flt) = 0
    THEN [entries |-> rows, filtered |-> flt, selected |-> sel,
          status |-> NothingToDelete, fs |-> fs, deleted |-> {}]
    ELSE LET idx  == At(flt, sel)
             sess == At(rows, idx).session
             r    == DeleteFiles(sess.FilePaths, Root, fs, denied)
         IN  IF r.err # <<>>
             THEN [entries |-> rows, filtered |-> flt, selected |-> sel,
                   status |-> DeleteFailed(r.err), fs |-> r.fs, deleted |-> {}]
             ELSE LET kept == RemoveRow(rows, idx)
                      af   == applyFilter(kept, q, sel)
                  IN  [entries |-> kept, filtered |-> af.filtered,
                       selected |-> af.selected,
                       status |-> SessionDeleted(sess.ID), fs |-> r.fs,
                       deleted |-> {sess.ID}]

\* the paths deleteSelected would hand to DeleteFiles
DeletablePaths(rows, flt, sel) ==
    IF Len(flt) = 0 THEN {} ELSE Range(At(rows, At(flt, sel)).session.FilePaths)

UIIdle ==
    /\ entries = <<>>
    /\ filtered = <<>>
    /\ selected = 0
    /\ pageSize = defaultPageLen
    /\ query = <<>>
    /\ status = <<>>
    /\ resumeID = <<>>
    /\ running = FALSE
    /\ deletedIDs = {}

\* Run up to app.Run(): newModel, then the first applyFilter and refreshes
InitUI ==
    /\ entries = newModel(UIItems)
    /\ LET af == applyFilter(newModel(UIItems), <<>>, 0)
       IN  /\ filtered = af.filtered
           /\ selected = refreshTable(af.filtered, af.selected)
    /\ pageSize = defaultPageLen
    /\ query = <<>>
    /\ status = <<>>
    /\ resumeID = <<>>
    /\ running = TRUE
    /\ deletedIDs = {}
    /\ fsys = [files |-> UIFiles, dirs |-> DirsFor(UIFiles)]
    /\ delPC = "idle"
    /\ delSess = <<>>
    /\ delRoot = Root
    /\ delErr = <<>>
    /\ delPre = fsys
    /\ ParseIdle
    /\ LoadIdle

\* a change of the query that forgets to apply the filter
Requery_KeepsView(q) ==
    /\ query' = q
    /\ UNCHANGED <<filtered, selected>>

\* the refreshes after a change of the query: applyFilter, refreshTable
Requery(q) ==
    LET af == applyFilter(entries, q, selected)
    IN  /\ query' = q
        /\ filtered' = af.filtered
        /\ selected' = refreshTable(af.filtered, af.selected)

\* handleEvent, case tcell.KeyRune
KeyRune(r) ==
    /\ running
    /\ IF IsControl(r)
       THEN UNCHANGED <<query, filtered, selected>>
       ELSE /\ Len(query) < MaxQueryLen
            /\ Requery(Append(query, r))
    /\ UNCHANGED <<entries, pageSize, status, resumeID, running, deletedIDs, fsVars,
                   parseVars, loadVars>>

\* handleEvent, case tcell.KeyBackspace, tcell.KeyBackspace2
KeyBackspace ==
    /\ running
    /\ IF query # <<>>
       THEN Requery(dropLastRune(query))
       ELSE UNCHANGED <<query, filtered, selected>>
    /\ UNCHANGED <<entries, pageSize, status, resumeID, running, deletedIDs, fsVars,
                   parseVars, loadVars>>

\* handleEvent, case tcell.KeyEsc
KeyEsc ==
    /\ running
    /\ IF query # <<>>
       THEN /\ Requery(<<>>)
            /\ UNCHANGED <<resumeID, running>>
       ELSE /\ resumeID' = <<>>
            /\ running' = FALSE
            /\ UNCHANGED <<query, filtered, selected>>
    /\ UNCHANGED <<entries, pageSize, status, deletedIDs, fsVars,
                   parseVars, loadVars>>

\* an Enter that resumes the first row of the view, whatever the cursor
KeyEnter_ResumesFirstRow ==
    /\ running
    /\ IF Len(filtered) = 0
       THEN UNCHANGED <<resumeID, running>>
       ELSE /\ resumeID' = At(entries, At(filtered, 0)).session.ID
            /\ running' = FALSE
    /\ UNCHANGED <<entries, filtered, selected, pageSize, query, status,
                   deletedIDs, fsVars, parseVars, loadVars>>

\* handleEvent, case tcell.KeyEnter
KeyEnter ==
    /\ running
    /\ IF Len(filtered) = 0
       THEN UNCHANGED <<resumeID, running>>
       ELSE LET idx == At(filtered, selected)
            IN  /\ resumeID' = At(entries, idx).session.ID
                /\ running' = FALSE
    /\ UNCHANGED <<entries, filtered, selected, pageSize, query, status,
                   deletedIDs, fsVars,
                   parseVars, loadVars>>

\* handleEvent, case tcell.KeyDelete: deleteSelected, then the refreshes
KeyDelete ==
    /\ running
    /\ \E denied \in SUBSET DeletablePaths(entries, filtered, selected) :
          LET d == deleteSelected(entries, filtered, selected, query, fsys, denied)
          IN  /\ entries' = d.entries
              /\ filtered' = d.filtered
              /\ selected' = refreshTable(d.filtered, d.selected)
              /\ status' = d.status
              /\ fsys' = d.fs
              /\ deletedIDs' = deletedIDs \cup d.deleted
    /\ UNCHANGED <<pageSize, query, resumeID, running, delPC, delSess, delRoot,
                   delErr, delPre, parseVars, loadVars>>

\* handleEvent, case tcell.KeyPgDn
KeyPgDn ==
    /\ running
    /\ selected' = moveSelectionBy(pageSize, filtered, selected)
    /\ UNCHANGED <<entries, filtered, pageSize, query, status, resumeID, running,
                   deletedIDs, fsVars,
                   parseVars, loadVars>>

\* handleEvent, case tcell.KeyPgUp
KeyPgUp ==
    /\ running
    /\ selected' = moveSelectionBy(-pageSize, filtered, selected)
    /\ UNCHANGED <<entries, filtered, pageSize, query, status, resumeID, running,
                   deletedIDs, fsVars,
                   parseVars, loadVars>>

\* handleEvent, case tcell.KeyCtrlC
KeyCtrlC ==
    /\ running
    /\ resumeID' = <<>>
    /\ running' = FALSE
    /\ UNCHANGED <<entries, filtered, selected, pageSize, query, status,
                   deletedIDs, fsVars,
                   parseVars, loadVars>>

\* a key handleEvent passes on (Up, Down, ...): the table moves its
\* selection to some row and calls the selection-changed function
TableSelect(row) ==
    /\ running
    /\ selected' = selectionChanged(row, filtered)
    /\ UNCHANGED <<entries, filtered, pageSize, query, status, resumeID, running,
                   deletedIDs, fsVars,
                   parseVars, loadVars>>

\* the function given to table.SetDrawFunc, for a table drawn height high
TableDraw(height) ==
    /\ running
    /\ pageSize' = (IF height - 1 < 1 THEN 1 ELSE height - 1)
    /\ UNCHANGED <<entries, filtered, selected, query, status, resumeID, running,
                   deletedIDs, fsVars,
                   parseVars, loadVars>>

NextUI ==
    \/ \E r \in Runes : KeyRune(r)
    \/ KeyBackspace
    \/ KeyEsc
    \/ KeyEnter
    \/ KeyDelete
    \/ KeyPgDn
    \/ KeyPgUp
    \/ KeyCtrlC
    \/ \E row \in 0..(Len(filtered) + 1) : TableSelect(row)
    \/ \E h \in Heights : TableDraw(h)

SpecUI == InitUI /\ [][NextUI]_vars
-----------------------------------------------------------------------------
(* SpecFS: one DeleteFiles call on a file system drawn from FileUniverse.  *)

FSIdle ==
    /\ fsys = [files |-> {}, dirs |-> {Slash}]
    /\ delPC = "idle"
    /\ delSess = <<>>
    /\ delRoot = Root
    /\ delErr = <<>>
    /\ delPre = fsys

InitFS ==
    /\ \E fl \in SUBSET FileUniverse : fsys = [files |-> fl, dirs |-> DirsFor(fl)]
    /\ delPC = "start"
    /\ \E ps \in SUBSET FileUniverse : delSess = SortedPaths(ps)
    /\ delRoot \in {Root, EmptyRoot}
    /\ delErr = <<>>
    /\ delPre = fsys
    /\ UIIdle
    /\ ParseIdle
    /\ LoadIdle

\* DeleteFiles(sess, sessionsRoot), whatever removals the system refuses
DeleteFilesCall ==
    /\ delPC = "start"
    /\ \E denied \in SUBSET (Range(delSess) \cup DeniableDirs) :
          LET r == DeleteFiles(delSess, delRoot, fsys, denied)
          IN  /\ fsys' = r.fs
              /\ delErr' = r.err
    /\ delPre' = fsys
    /\ delPC' = "done"
    /\ UNCHANGED <<delSess, delRoot, uiVars, parseVars, loadVars>>

NextFS == DeleteFilesCall

SpecFS == InitFS /\ [][NextFS]_vars

-----------------------------------------------------------------------------
(* Claims about DeleteFiles.                                               *)

\* C2: DeleteFiles never removes the root boundary directory itself: after
\* a call with the root as boundary, the root directory still exists.
C2_RootNeverRemoved ==
    (delPC = "done" /\ delRoot = Root) => Root \in fsys.dirs


\* the paths of the session still on the file system after the call
StillThere == {p \in Range(delSess) : p \in fsys.files}

\* C16: DeleteFiles attempts every path of FilePaths, also after an earlier
\* removal failed; a path that does not exist is no error; the error
\* returned is nil exactly when every path was removed or was missing, and
\* holds otherwise one entry for each path whose removal failed.
C16_EveryPathAttempted ==
    delPC = "done" =>
        /\ Range(delErr) = StillThere
        /\ Len(delErr) = Cardinality(StillThere)
        /\ (delErr = <<>>) <=> (\A p \in Range(delSess) : p \notin fsys.files)
        /\ \A p \in Range(delSess) \ delPre.files : p \notin Range(delErr)
        /\ fsys.files = delPre.files \ (Range(delSess) \ Range(delErr))

\* the first path was missing, the removal of the second failed, and the
\* third was removed all the same
C16_Witness ==
    /\ delPC = "done"
    /\ Len(delSess) = 3
    /\ delSess[1] \notin delPre.files
    /\ delErr = <<delSess[2]>>
    /\ delSess[3] \in delPre.files
    /\ delSess[3] \notin fsys.files

\* the directories the call removed, and the paths it went on from
PrunedDirs == delPre.dirs \ fsys.dirs

ProcessedPaths == Range(delSess) \ Range(delErr)

\* the directories from the parent of p up to d, d being an ancestor of p
UpTo(p, d) == {a \in Ancestors(p) : IsPrefix(d, a)}

\* C21: the directories DeleteFiles prunes are ancestors of a path it
\* processed, lie in the subtree of the root boundary (the boundary
\* included) and have nothing left below them; pruning goes upward from
\* the parent of the path without skipping a directory, so that nothing
\* above a directory that stayed is removed; with the empty string as
\* boundary nothing is pruned; and the error returned names only files of
\* the session, never a directory that could not be pruned.
C21_PruningIsBounded ==
    delPC = "done" =>
        /\ \A d \in PrunedDirs :
              /\ IsPrefix(Clean(delRoot), d)
              /\ \A q \in fsys.files \cup fsys.dirs :
                    ~(IsPrefix(d, q) /\ q # d)
              /\ \E p \in ProcessedPaths :
                    /\ d \in Ancestors(p)
                    /\ UpTo(p, d) \cap fsys.dirs = {}
        /\ Range(delErr) \cap delPre.dirs = {}
        /\ Range(delErr) \subseteq Range(delSess) \cap fsys.files

\* /r/a/b was pruned after its only file was removed, pruning stopped at
\* /r/a, which still holds a file, and no error was returned
C21_Witness ==
    /\ delPC = "done"
    /\ delRoot = Root
    /\ PrunedDirs = {<<"r", "a", "b">>}
    /\ F2 \in fsys.files
    /\ delErr = <<>>
-----------------------------------------------------------------------------
(* SpecParse: one run of parseSessionFile, line by line.                   *)

InitParse ==
    /\ parsePC = "reading"
    /\ parseLines = <<>>
    /\ parseSt = StartParse(ParsePath)
    /\ parseErr = ""
    /\ FSIdle
    /\ UIIdle
    /\ LoadIdle

\* the turn of the loop left r: an error returns, anything else goes on
Turned(r) ==
    IF r.err # ""
    THEN /\ parsePC' = "done"
         /\ parseErr' = r.err
         /\ UNCHANGED parseSt
    ELSE /\ parseSt' = r.st
         /\ UNCHANGED <<parsePC, parseErr>>

\* reader.ReadBytes returns a line and no error: one turn of the loop
ReadLine(line) ==
    /\ parsePC = "reading"
    /\ Len(parseLines) < MaxRecords
    /\ parseLines' = Append(parseLines, line)
    /\ IF line.json = "blank" THEN UNCHANGED <<parsePC, parseSt, parseErr>>
       ELSE Turned(parseLine(parseSt, line))
    /\ UNCHANGED <<fsVars, uiVars, loadVars>>

\* parseSessionFile returns what the last turn and the tail left
Returned(r) ==
    /\ parseErr' = r.err
    /\ parseSt' = r.st
    /\ parsePC' = "done"

\* reader.ReadBytes returns io.EOF, with the last line when the log does not
\* end in a newline (BlankLine otherwise): the last turn, then the tail
ReadLastLine(line) ==
    /\ parsePC = "reading"
    /\ line.json # "blank" => Len(parseLines) < MaxRecords
    /\ parseLines' = IF line.json = "blank" THEN parseLines
                     ELSE Append(parseLines, line)
    /\ Returned(lastTurn(parseSt, line))
    /\ UNCHANGED <<fsVars, uiVars, loadVars>>

\* reader.ReadBytes fails: the line is too long, or the read fails
ReadFails ==
    /\ parsePC = "reading"
    /\ parsePC' = "done"
    /\ parseErr' = "read"
    /\ UNCHANGED <<parseLines, parseSt, fsVars, uiVars, loadVars>>

NextParse ==
    \/ \E line \in ParseLines : ReadLine(line)
    \/ \E line \in ParseLines : ReadLastLine(line)
    \/ ReadFails

SpecParse == InitParse /\ [][NextParse]_vars

-----------------------------------------------------------------------------
(* SpecLoad: one run of Load over the tree under LoadRoot.                 *)

InitLoad ==
    /\ loadPC = "stat"
    /\ walkPos = 1
    /\ byID = <<>>
    /\ combinedErr = <<>>
    /\ fragments = <<>>
    /\ loadIter = <<>>
    /\ loadOut = NoReturn
    /\ FSIdle
    /\ UIIdle
    /\ ParseIdle

\* ResolveDir and os.Stat(root): the root is a directory, is missing, is not
\* a directory, or cannot be examined
StatRoot(outcome) ==
    /\ loadPC = "stat"
    /\ IF outcome = "dir"
       THEN /\ loadPC' = "walk"
            /\ UNCHANGED loadOut
       ELSE /\ loadPC' = "done"
            /\ loadOut' = [sessions |-> <<>>,
                           err |-> IF outcome = "missing" THEN <<>>
                                   ELSE <<[path |-> LoadRoot, kind |-> outcome]>>,
                           fatal |-> outcome # "missing"]
    /\ UNCHANGED <<walkPos, byID, combinedErr, fragments, loadIter, fsVars,
                   uiVars, parseVars>>

\* the walk function on a directory: nothing to do when it can be read; when
\* it cannot, WalkDir hands over the error and does not descend
VisitDir(readable) ==
    /\ loadPC = "walk"
    /\ walkPos <= Len(WalkItems)
    /\ WalkItems[walkPos].kind = "dir"
    /\ IF readable
       THEN /\ walkPos' = walkPos + 1
            /\ UNCHANGED combinedErr
       ELSE /\ walkPos' = SkipDir(walkPos)
            /\ combinedErr' = errorsJoin(combinedErr,
                                         [path |-> WalkItems[walkPos].path,
                                          kind |-> "walk"])
    /\ UNCHANGED <<loadPC, byID, fragments, loadIter, loadOut, fsVars, uiVars,
                   parseVars>>

\* the walk function on a file that is not a .jsonl log
VisitOther ==
    /\ loadPC = "walk"
    /\ walkPos <= Len(WalkItems)
    /\ WalkItems[walkPos].kind = "file"
    /\ Ext(WalkItems[walkPos].path) # ExtJsonl
    /\ walkPos' = walkPos + 1
    /\ UNCHANGED <<loadPC, byID, combinedErr, fragments, loadIter, loadOut,
                   fsVars, uiVars, parseVars>>

\* the walk function after parseSessionFile(path) returned r
Parsed(path, r) ==
    /\ fragments' = Append(fragments, [path |-> path, err |-> r.err,
                                       session |-> r.session])
    /\ IF r.err # ""
       THEN /\ combinedErr' = errorsJoin(combinedErr,
                                         [path |-> path, kind |-> "parse"])
            /\ UNCHANGED byID
       ELSE /\ byID' = storeFragment(byID, r.session)
            /\ UNCHANGED combinedErr

\* the walk function on a .jsonl log holding file
VisitLog(file) ==
    /\ loadPC = "walk"
    /\ walkPos <= Len(WalkItems)
    /\ WalkItems[walkPos].kind = "file"
    /\ Ext(WalkItems[walkPos].path) = ExtJsonl
    /\ Parsed(WalkItems[walkPos].path,
              parseSessionFile(WalkItems[walkPos].path, file))
    /\ walkPos' = walkPos + 1
    /\ UNCHANGED <<loadPC, loadIter, loadOut, fsVars, uiVars, parseVars>>

\* after the walk: range over byID in some order, sort each FilePaths, sort
\* the sessions, return them with the combined error
Finish(order) ==
    /\ loadPC = "walk"
    /\ walkPos > Len(WalkItems)
    /\ loadIter' = order
    /\ loadOut' = [sessions |-> SortSessions(CollectSessions(byID, order)),
                   err |-> combinedErr, fatal |-> FALSE]
    /\ loadPC' = "done"
    /\ UNCHANGED <<walkPos, byID, combinedErr, fragments, fsVars, uiVars,
                   parseVars>>

NextLoad ==
    \/ \E outcome \in {"dir", "missing", "not a directory", "stat"} :
          StatRoot(outcome)
    \/ \E readable \in BOOLEAN : VisitDir(readable)
    \/ VisitOther
    \/ \E file \in LoadFiles : VisitLog(file)
    \/ \E order \in SetToSeqs(DOMAIN byID) : Finish(order)

SpecLoad == InitLoad /\ [][NextLoad]_vars

-----------------------------------------------------------------------------
(* Claims about the selection model.                                       *)

\* C1: after the first applyFilter and after every key event, the cursor is
\* within the filtered view: 0 <= selected <= len(filtered) - 1 when the
\* view is non-empty, and selected = 0 when it is empty.
C1_CursorInBounds ==
    IF Len(filtered) = 0 THEN selected = 0
    ELSE 0 <= selected /\ selected <= Len(filtered) - 1

\* a query is typed, a session was deleted, and the cursor is on the last
\* row of a view of two or more rows
C1_Witness ==
    /\ running
    /\ query # <<>>
    /\ deletedIDs # {}
    /\ Len(filtered) >= 2
    /\ selected = Len(filtered) - 1

\* a step that removes a row removes exactly the row under the cursor and
\* leaves the view recomputed for the query
C3_DeleteRemovesSelectedRow ==
    entries' # entries =>
        /\ Len(filtered) > 0
        /\ LET idx == At(filtered, selected)
           IN  /\ Len(entries') = Len(entries) - 1
               /\ \A i \in 1..Len(entries') :
                     entries'[i] = entries[IF i <= idx THEN i ELSE i + 1]
               /\ deletedIDs' = deletedIDs \cup {At(entries, idx).session.ID}
        /\ filtered' = RankedIndices(query', entries')
        /\ query' = query

\* no deleted session is a row or is shown, and the view indexes rows
C3_DeletedNeverShown ==
    /\ \A i \in 1..Len(entries) : entries[i].session.ID \notin deletedIDs
    /\ \A k \in 1..Len(filtered) :
          /\ filtered[k] \in 0..(Len(entries) - 1)
          /\ At(entries, filtered[k]).session.ID \notin deletedIDs
    /\ Len(filtered) = 0 => selected = 0
    /\ Len(filtered) > 0 => selected \in 0..(Len(filtered) - 1)

\* C3: a Delete whose file deletion succeeds removes exactly the row at
\* filtered[selected] from entries, keeping the other rows in order, and
\* recomputes filtered; the deleted session is in no later filtered view;
\* when filtered is left empty selected is 0, and the cursor always indexes
\* the view, so Enter, Delete and the page moves stay in bounds.
C3_DeleteSelected ==
    [][C3_DeleteRemovesSelectedRow]_vars /\ []C3_DeletedNeverShown

\* a deletion left the view empty although rows remain
C3_Witness ==
    /\ deletedIDs # {}
    /\ Len(filtered) = 0
    /\ Len(entries) > 0
    /\ running

StatusIsDeleteFailed == Len(status) = 2 /\ status[1] = "Delete failed: "

\* C4: a Delete whose file deletion fails changes nothing of the model but
\* the status, which reports the failure; a Delete with filtered empty sets
\* the status to "Nothing to delete", attempts no deletion and changes
\* nothing else.
C4_FailedDeleteKeepsState ==
    [][KeyDelete =>
         /\ (Len(filtered) = 0 =>
                /\ status' = NothingToDelete
                /\ UNCHANGED <<entries, filtered, selected, query, pageSize,
                               resumeID, running, deletedIDs, fsys>>)
         /\ (Len(filtered) > 0 /\ entries' = entries =>
                /\ StatusIsDeleteFailed'
                /\ status'[2] # <<>>
                /\ UNCHANGED <<entries, filtered, selected, query, pageSize,
                               resumeID, running, deletedIDs>>)
         /\ (StatusIsDeleteFailed' =>
                UNCHANGED <<entries, filtered, selected, query, pageSize,
                            resumeID, running, deletedIDs>>)]_vars

\* a Delete has failed: the status reports it and every row is still there
C4_Witness ==
    /\ StatusIsDeleteFailed
    /\ Len(entries) = Len(UIItems)
    /\ fsys.files # UIFiles
\* the ID of the session under the cursor
SelectedID == At(entries, At(filtered, selected)).session.ID

\* C12: the identifier handed back is non-empty only when Enter ended the run
\* with filtered non-empty, and is then the ID of entries[filtered[selected]];
\* Ctrl+C, and Esc with an empty query, end the run with the empty
\* identifier; Enter with filtered empty and Esc with a non-empty query do
\* not end the run, and Esc then only clears the query and ranks anew.
C12_ResumeIDSteps ==
    /\ (running /\ ~running' /\ resumeID' # <<>>) =>
           /\ Len(filtered) > 0
           /\ resumeID' = SelectedID
           /\ KeyEnter
    /\ (running /\ Len(filtered) > 0 /\ KeyEnter) =>
           ~running' /\ resumeID' = SelectedID /\ resumeID' # <<>>
    /\ (running /\ KeyCtrlC) => ~running' /\ resumeID' = <<>>
    /\ (running /\ query = <<>> /\ KeyEsc) => ~running' /\ resumeID' = <<>>
    /\ (running /\ Len(filtered) = 0 /\ KeyEnter) => running' /\ resumeID' = <<>>
    /\ (running /\ query # <<>> /\ KeyEsc) =>
           /\ running'
           /\ resumeID' = <<>>
           /\ query' = <<>>
           /\ entries' = entries
           /\ filtered' = [i \in 1..Len(entries) |-> i - 1]

C12_ResumeID ==
    [][C12_ResumeIDSteps]_vars /\ [](running => resumeID = <<>>)

\* Enter ended the run on a row that is not the first of a filtered view,
\* after a query was typed
C12_Witness ==
    /\ ~running
    /\ resumeID # <<>>
    /\ query # <<>>
    /\ selected > 0
    /\ Len(filtered) > selected
    /\ resumeID = SelectedID
    /\ resumeID # At(entries, At(filtered, 0)).session.ID

\* C13: for a query that is empty once its white space is trimmed, a query
\* of white space only included, the filtered view is exactly the indices
\* 0..len(entries)-1 in their original order.
C13_EmptyQueryShowsAll ==
    TrimSpace(query) = <<>> => filtered = [i \in 1..Len(entries) |-> i - 1]

\* a query of white space only over two rows or more, which a ranking of the
\* untrimmed query would not leave in their original order
C13_Witness ==
    /\ query # <<>>
    /\ TrimSpace(query) = <<>>
    /\ Len(entries) >= 2
    /\ filtered = [i \in 1..Len(entries) |-> i - 1]
    /\ LET keys == [i \in 1..Len(entries) |-> entries[i].searchKey]
           ranked == SortRanks(RankFindFold(query, keys), <<>>, entries)
       IN  [i \in 1..Len(ranked) |-> ranked[i].OriginalIndex] # filtered

\* the query applyFilter ranks by
Trimmed == TrimSpace(query)

\* the match distance of the row at index i (from 0), -1 for no match
DistanceOf(i) == FoldRankTable[Trimmed, At(entries, i).searchKey]

\* the order C14 states: ascending distance, then descending UpdatedAt, then
\* ascending ID
Precedes(i, j) ==
    LET a == At(entries, i).session
        b == At(entries, j).session
    IN  \/ DistanceOf(i) < DistanceOf(j)
        \/ /\ DistanceOf(i) = DistanceOf(j)
           /\ \/ a.UpdatedAt > b.UpdatedAt
              \/ a.UpdatedAt = b.UpdatedAt /\ StrLess(a.ID, b.ID)

\* C14: for a non-empty query over rows with unique IDs, the filtered view
\* holds exactly the indices of the rows whose search key matches the query,
\* each once, in ascending match distance, then descending UpdatedAt, then
\* ascending ID; the order is total, so it is the only such sequence.
C14_RankedView ==
    Trimmed # <<>> =>
        /\ Range(filtered) = {i \in 0..(Len(entries) - 1) : DistanceOf(i) >= 0}
        /\ \A k, l \in 1..Len(filtered) :
              k < l => /\ Precedes(filtered[k], filtered[l])
                       /\ ~Precedes(filtered[l], filtered[k])

\* a view of three rows in another order than the original, two of which
\* tie in distance and UpdatedAt and stand in the order of their IDs
C14_Witness ==
    /\ Trimmed # <<>>
    /\ Len(filtered) = 3
    /\ filtered # <<0, 1, 2>>
    /\ \E k \in 1..2 :
          /\ DistanceOf(filtered[k]) = DistanceOf(filtered[k + 1])
          /\ At(entries, filtered[k]).session.UpdatedAt
                = At(entries, filtered[k + 1]).session.UpdatedAt
          /\ filtered[k] > filtered[k + 1]

\* the query of the scenario, and what the lower-case keys hold of it
QueryS1 == <<"S", "1">>

\* key holds "s1": an s with a 1 right after it
HoldsS1(key) == \E i \in 1..(Len(key) - 1) : key[i] = "s" /\ key[i + 1] = "1"

\* key holds an s and, anywhere after it, a 1
HoldsSThen1(key) == \E i, j \in 1..Len(key) : i < j /\ key[i] = "s" /\ key[j] = "1"

\* the rows of other sessions than S1
OtherRows == {i \in 1..Len(entries) : entries[i].session.ID # QueryS1}

\* the view holds the index of S1 and no other
OnlyS1 ==
    /\ Len(filtered) = 1
    /\ At(entries, filtered[1]).session.ID = QueryS1

\* C15, as stated: the query "S1" over rows that hold S1 and other sessions
\* whose search keys hold no "s1" returns the index of S1 only.
C15_OnlyS1WithoutSubstring ==
    (/\ query = QueryS1
     /\ \E i \in 1..Len(entries) : entries[i].session.ID = QueryS1
     /\ OtherRows # {}
     /\ \A i \in OtherRows : ~HoldsS1(entries[i].searchKey)) => OnlyS1

\* C15, amended: the query "S1" over rows that hold S1 and other sessions
\* whose search keys hold no s with a 1 anywhere after it returns the index
\* of S1 only.
C15_OnlyS1WithoutSubsequence ==
    (/\ query = QueryS1
     /\ \E i \in 1..Len(entries) : entries[i].session.ID = QueryS1
     /\ OtherRows # {}
     /\ \A i \in OtherRows : ~HoldsSThen1(entries[i].searchKey)) => OnlyS1

\* "S1" was typed over S1 and S2, the key of S2 holding no 1 after its s,
\* and the view is S1 alone
C15_Witness ==
    /\ query = QueryS1
    /\ Len(entries) = 2
    /\ entries[1].session.ID = QueryS1
    /\ entries[2].session.ID = <<"S", "2">>
    /\ ~HoldsSThen1(entries[2].searchKey)
    /\ filtered = <<0>>


\* n brought into 0..len-1
PageClamp(n, len) == IF n < 0 THEN 0 ELSE IF n > len - 1 THEN len - 1 ELSE n

PageTarget(delta) ==
    IF Len(filtered) = 0 THEN selected
    ELSE PageClamp(selected + delta, Len(filtered))

C22_PageMoveSteps ==
    /\ KeyPgDn => selected' = PageTarget(pageSize)
    /\ KeyPgUp => selected' = PageTarget(-pageSize)
    /\ (KeyPgDn \/ KeyPgUp) =>
          /\ UNCHANGED <<query, filtered, entries>>
          /\ Len(filtered) = 0 => UNCHANGED vars

\* C22: the page size is at least 1; PgDn sets selected to selected +
\* pageSize and PgUp to selected - pageSize, clamped into
\* 0..len(filtered)-1, and neither changes query, filtered or entries;
\* with filtered empty a page move changes nothing.
C22_PageMove == [][C22_PageMoveSteps]_vars /\ [](pageSize >= 1)

\* the cursor is on the middle one of three rows with a page of one row:
\* a page move in either direction moves it by one row without clamping
C22_Witness ==
    /\ running
    /\ Len(filtered) = 3
    /\ pageSize = 1
    /\ selected = 1

\* the state of the view after the rune r is appended to the query
AfterAppend(r) == applyFilter(entries, Append(query, r), selected)

\* the view Backspace leaves when pressed right after r was appended
ViewAfterBackspace(r, af) ==
    applyFilter(entries, dropLastRune(Append(query, r)),
                refreshTable(af.filtered, af.selected)).filtered

C23_BackspaceSteps ==
    /\ (KeyBackspace /\ query = <<>>) => UNCHANGED vars
    /\ (KeyBackspace /\ query # <<>>) =>
          /\ Len(query') = Len(query) - 1
          /\ IsPrefix(query', query)
          /\ filtered' = RankedIndices(query', entries)
    /\ \A r \in Runes :
          /\ (KeyRune(r) /\ ~IsControl(r)) =>
                /\ query' = Append(query, r)
                /\ filtered' = RankedIndices(query', entries)
          /\ (KeyRune(r) \/ KeyBackspace) => entries' = entries

C23_RoundTrip ==
    (running /\ Len(query) < MaxQueryLen) =>
        \A r \in {c \in Runes : ~IsControl(c)} :
            /\ dropLastRune(Append(query, r)) = query
            /\ ViewAfterBackspace(r, AfterAppend(r)) = filtered

\* C23: Backspace with an empty query changes nothing; with a non-empty
\* query it removes exactly the last rune and ranks again; a non-control
\* rune appended and then removed by Backspace leaves the query and the
\* filtered view as they were before; neither event changes entries.
C23_BackspaceUndoesAppend == [][C23_BackspaceSteps]_vars /\ []C23_RoundTrip

\* a query of two runes that shows two rows of three: Backspace widens the
\* view again
C23_Witness ==
    /\ running
    /\ query = <<"S", "1">>
    /\ Len(entries) = 3
    /\ Len(filtered) = 2

\* C24: in every state from the first applyFilter on, filtered is a
\* sequence without duplicates of indices into entries, no longer than
\* entries, and is the ranking applyFilter computes for the current query
\* over the current entries, whatever query changes and row removals came
\* before; with filtered non-empty, the row filtered[selected] that Enter
\* and Delete read exists.
C24_ViewIsCurrent ==
    /\ \A k \in 1..Len(filtered) : filtered[k] \in 0..(Len(entries) - 1)
    /\ \A k, l \in 1..Len(filtered) : k # l => filtered[k] # filtered[l]
    /\ Len(filtered) <= Len(entries)
    /\ filtered = RankedIndices(query, entries)
    /\ Len(filtered) > 0 =>
          /\ selected \in 0..(Len(filtered) - 1)
          /\ At(filtered, selected) \in 0..(Len(entries) - 1)

\* after a row was removed, a query shows one of the two rows left
C24_Witness ==
    /\ running
    /\ deletedIDs # {}
    /\ TrimSpace(query) # <<>>
    /\ Len(entries) = 2
    /\ Len(filtered) = 1

\* C25: over sessions with unique IDs, the ID Run returns is never the ID
\* of a session deleted earlier in the run: a non-empty resumeID is the ID
\* of a row that entries holds when Enter ends the run.
C25_NeverResumesDeleted ==
    resumeID # <<>> =>
        /\ resumeID \notin deletedIDs
        /\ \E i \in 1..Len(entries) : entries[i].session.ID = resumeID

\* Enter ended the run on a row after another session had been deleted
C25_Witness ==
    /\ ~running
    /\ resumeID # <<>>
    /\ deletedIDs # {}
-----------------------------------------------------------------------------
(* Claims about parseSessionFile.                                          *)

\* parseSessionFile has returned a session
ParsedOK == parsePC = "done" /\ parseErr = ""

\* the entries among the lines read
EntriesRead == {i \in 1..Len(parseLines) : parseLines[i].json = "object"}

\* the time parseSessionFile reads from a line: the zero time when the
\* timestamp is missing or no layout reads it
EntryTime(line) ==
    IF parseTimestamp(line.Timestamp).err THEN 0
    ELSE parseTimestamp(line.Timestamp).t

\* the latest of a set of times, the zero time for none
MaxTime(S) == IF S = {} THEN 0 ELSE CHOOSE t \in S : \A o \in S : o <= t

\* the line yields a text for LastAction: a description, or the
\* "session started" of a session_meta record
Described(line) == describeEntry(line) # <<>> \/ line.Type = "session_meta"

DescribedRead == {i \in EntriesRead : Described(parseLines[i])}

Describable == {i \in EntriesRead : describeEntry(parseLines[i]) # <<>>}

\* the describable records with the greatest timestamp
NewestDescribable ==
    {i \in Describable :
        \A j \in Describable : EntryTime(parseLines[j]) <= EntryTime(parseLines[i])}

\* C17: after parsing one file, LastAction is the synopsis of the most
\* recent describable event: the description of a describable record with
\* the greatest timestamp in the file, however describable and other records
\* are interleaved or ordered.
C17_LastActionIsNewestDescribable ==
    (ParsedOK /\ Describable # {}) =>
        \E i \in NewestDescribable :
            parseSt.session.LastAction = describeEntry(parseLines[i])

\* the records read that are session_meta records
MetaRead == {i \in EntriesRead : parseLines[i].Type = "session_meta"}

\* a step that does not put "session started" in the place of a LastAction
\* a describable record has set
KeepsDescription ==
    (parseSt.session.LastAction # <<>>
        /\ parseSt.session.LastAction # StrSessionStarted)
    => parseSt'.session.LastAction # StrSessionStarted

\* C18: when a file holds a session_meta record and no record of it yields
\* a description, LastAction is "session started", wherever the session_meta
\* record sits and whatever its timestamp; and a LastAction a describable
\* record has set is never replaced by "session started".
C18_SessionStartedSeeded ==
    /\ []((ParsedOK /\ MetaRead # {} /\ Describable = {})
             => parseSt.session.LastAction = StrSessionStarted)
    /\ [][KeepsDescription]_vars

-----------------------------------------------------------------------------
(* Claims about Load.                                                      *)

\* the list Load returned
Out == loadOut.sessions

\* the logs that parsed, by their position in fragments
OkFragments == {k \in 1..Len(fragments) : fragments[k].err = ""}

FragmentsOf(id) == {k \in OkFragments : fragments[k].session.ID = id}

\* ascending, and so without duplicates
StrictlyAscending(list) ==
    \A a, b \in 1..Len(list) : a < b => StrLess(list[a], list[b])

\* C5: the list Load returns holds exactly one Session per distinct ID among
\* the logs that parsed, every ID is non-empty, each FilePaths is sorted
\* ascending without duplicates, and the path of every log that parsed is in
\* the FilePaths of exactly the session with that log's ID.
C5_OneSessionPerID ==
    loadPC = "done" =>
        /\ \A i, j \in 1..Len(Out) : Out[i].ID = Out[j].ID => i = j
        /\ {Out[i].ID : i \in 1..Len(Out)}
              = {fragments[k].session.ID : k \in OkFragments}
        /\ \A i \in 1..Len(Out) :
              /\ Out[i].ID # <<>>
              /\ StrictlyAscending(Out[i].FilePaths)
        /\ \A k \in OkFragments : \A i \in 1..Len(Out) :
              contains(Out[i].FilePaths, fragments[k].path)
                  <=> Out[i].ID = fragments[k].session.ID

\* Load returned two sessions or more, one of them merged from two logs the
\* later discovered of which sorts first
C5_Witness ==
    /\ loadPC = "done"
    /\ Len(Out) >= 2
    /\ \E k, l \in OkFragments :
          /\ k < l
          /\ fragments[k].session.ID = fragments[l].session.ID
          /\ StrLess(fragments[l].path, fragments[k].path)

\* the two paths in ascending order
SortedPair(p, q) == IF StrLess(p, q) THEN <<p, q>> ELSE <<q, p>>

\* C6: when exactly two logs of one ID with different UpdatedAt were merged,
\* in either order of discovery, the session has the later fragment's
\* LastAction and UpdatedAt, the later fragment's WorkingDir when that is
\* non-empty, and as FilePaths the sorted union of the two paths.
C6_MergeOfTwo ==
    loadPC = "done" =>
        \A i \in 1..Len(Out) :
            Cardinality(FragmentsOf(Out[i].ID)) = 2 =>
                \A k, l \in FragmentsOf(Out[i].ID) :
                    LET later   == fragments[k].session
                        earlier == fragments[l].session
                    IN  later.UpdatedAt > earlier.UpdatedAt =>
                            /\ Out[i].LastAction = later.LastAction
                            /\ Out[i].UpdatedAt = later.UpdatedAt
                            /\ later.WorkingDir # <<>> =>
                                   Out[i].WorkingDir = later.WorkingDir
                            /\ Out[i].FilePaths
                                   = SortedPair(fragments[k].path,
                                                fragments[l].path)

\* two logs of one ID were merged, the later of them discovered first, with
\* different working directories and last actions
C6_Witness ==
    /\ loadPC = "done"
    /\ \E k, l \in OkFragments :
          /\ k < l
          /\ FragmentsOf(fragments[k].session.ID) = {k, l}
          /\ fragments[k].session.UpdatedAt > fragments[l].session.UpdatedAt
          /\ fragments[k].session.WorkingDir # <<>>
          /\ fragments[l].session.WorkingDir # <<>>
          /\ fragments[k].session.WorkingDir # fragments[l].session.WorkingDir

\* C7: whatever fragments were merged under one ID, in whatever order, the
\* merged CreatedAt is never later than the non-zero CreatedAt of any of
\* them.
C7_CreatedAtNeverLater ==
    \A k \in OkFragments :
        LET f == fragments[k].session
        IN  f.CreatedAt # 0 => byID[f.ID].CreatedAt <= f.CreatedAt

\* C9: a log that fails to parse is in no session's FilePaths and its
\* failure is in the combined error Load returns; the walk goes on, so every
\* log that parses is aggregated and, once the tree was walked, every log
\* not below an unreadable directory was visited.
C9_FailedLogContributesNothing ==
    (loadPC = "done" /\ walkPos > Len(WalkItems)) =>
        /\ \A k \in 1..Len(fragments) :
              fragments[k].err # "" =>
                  /\ \A i \in 1..Len(Out) :
                        ~contains(Out[i].FilePaths, fragments[k].path)
                  /\ \E n \in 1..Len(loadOut.err) :
                        /\ loadOut.err[n].path = fragments[k].path
                        /\ loadOut.err[n].kind = "parse"
        /\ \A k \in OkFragments :
              \E i \in 1..Len(Out) :
                  contains(Out[i].FilePaths, fragments[k].path)
        /\ \A n \in 1..Len(WalkItems) :
              (WalkItems[n].kind = "file" /\ Ext(WalkItems[n].path) = ExtJsonl)
                  => \/ \E k \in 1..Len(fragments) :
                           fragments[k].path = WalkItems[n].path
                     \/ \E m \in 1..Len(loadOut.err) :
                           /\ loadOut.err[m].kind = "walk"
                           /\ IsPrefix(loadOut.err[m].path \o <<"/">>,
                                       WalkItems[n].path)

\* two logs failed, the first for want of a session id, and a log
\* discovered after them parsed and was returned
C9_Witness ==
    /\ loadPC = "done"
    /\ \E k, l, m \in 1..Len(fragments) :
          /\ k < l /\ l < m
          /\ fragments[k].err = "missing session id"
          /\ fragments[l].err # ""
          /\ fragments[m].err = ""
    /\ Len(Out) = 1

\* C10: the list Load returns is ordered by UpdatedAt descending: no session
\* is updated after one that stands before it.
C10_SortedByUpdatedAtDescending ==
    loadPC = "done" =>
        \A i, j \in 1..Len(Out) :
            i < j => ~(Out[j].UpdatedAt > Out[i].UpdatedAt)

\* three sessions with three update times were returned, and the map was
\* ranged over in another order than the one returned
C10_Witness ==
    /\ loadPC = "done"
    /\ Len(Out) = 3
    /\ Out[1].UpdatedAt > Out[2].UpdatedAt
    /\ Out[2].UpdatedAt > Out[3].UpdatedAt
    /\ loadIter[1] = Out[3].ID

\* C11: the order of the list Load returns is determined by the directory
\* contents and the order of discovery: whatever order the map of sessions is
\* ranged over in, the same sequence of sessions is returned, also when two
\* sessions have equal UpdatedAt.
C11_OrderDetermined ==
    (loadPC = "done" /\ walkPos > Len(WalkItems)) =>
        \A order \in SetToSeqs(DOMAIN byID) :
            SortSessions(CollectSessions(byID, order)) = Out

\* the CreatedAt of the fragments of id that are not the zero time
CreatedTimes(id) ==
    {fragments[k].session.CreatedAt : k \in FragmentsOf(id)} \ {0}

\* the least of a non-empty set of times
MinTime(S) == CHOOSE t \in S : \A o \in S : t <= o

\* C19: after any sequence of merges under one ID, CreatedAt is the least of
\* the non-zero CreatedAt of the fragments, and the zero time only if the
\* CreatedAt of every fragment is.
C19_CreatedAtIsEarliestNonZero ==
    \A id \in DOMAIN byID :
        IF CreatedTimes(id) = {} THEN byID[id].CreatedAt = 0
        ELSE byID[id].CreatedAt = MinTime(CreatedTimes(id))

\* the fragments of id that name a working directory
WithWorkingDir(id) ==
    {k \in FragmentsOf(id) : fragments[k].session.WorkingDir # <<>>}

\* the UpdatedAt of the fragments of id are pairwise distinct
DistinctUpdatedAt(id) ==
    \A k, l \in FragmentsOf(id) :
        k # l => fragments[k].session.UpdatedAt # fragments[l].session.UpdatedAt

\* C20: after any number of fragments of one ID with pairwise distinct
\* UpdatedAt were aggregated, in whatever order they were discovered, the
\* WorkingDir is that of the newest fragment among those that name one.
C20_WorkingDirOfNewest ==
    loadPC = "done" =>
        \A i \in 1..Len(Out) :
            (DistinctUpdatedAt(Out[i].ID) /\ WithWorkingDir(Out[i].ID) # {}) =>
                \E k \in WithWorkingDir(Out[i].ID) :
                    /\ \A l \in WithWorkingDir(Out[i].ID) :
                          fragments[l].session.UpdatedAt
                              <= fragments[k].session.UpdatedAt
                    /\ Out[i].WorkingDir = fragments[k].session.WorkingDir

====
